---- MODULE Spec2Model ----
(***************************************************************************)
(* Row level permissions (fastapi_permissions/__init__.py).                *)
(*                                                                         *)
(* Python values are modelled as records that carry their runtime type in  *)
(* the field "type", so that isinstance / hasattr / callable tests of the  *)
(* source become tests on that field:                                      *)
(*   - a permission value is a str, a set of str, or the _AllPermissions   *)
(*     instance "All":            [type, text, elems]                      *)
(*   - a resource is any object:  [type, acl_attr, acl, items, chars]      *)
(*       type      "object" | "str" | "list" | "Depends"                   *)
(*       acl_attr  "missing" | "None" | "value" | "callable" (__acl__)     *)
(*       acl       what __acl__ holds, or returns when called              *)
(*       items     the elements of a list                                  *)
(*       chars     the length of a str                                     *)
(*   - a user is any object:      [principals_attr, principals]            *)
(*   - an ACL entry is a 3-tuple: [action, principal, permissions]         *)
(* A call's outcome is Returned(value) or Raised(exception).               *)
(***************************************************************************)
EXTENDS Integers, Sequences, FiniteSets, TLC

VARIABLES user, resource, op, arg_permission, arg_resource, result, history

vars == <<user, resource, op, arg_permission, arg_resource, result, history>>

----------------------------------------------------------------------------
(* Bounds of the model *)

MaxAcl == 2         \* entries one resource holds (__acl__ plus list items)
MaxPrincipals == 2  \* length of a user's principals list
MaxChars == 1       \* length of a resource that is a plain string

----------------------------------------------------------------------------
(* Module constants *)

Allow == "Allow"
Deny == "Deny"
Everyone == "system:everyone"
Authenticated == "system:authenticated"

Str(text) == [type |-> "str", text |-> text, elems |-> {}]
PySet(elems) == [type |-> "set", text |-> "", elems |-> elems]

\* All = _AllPermissions(): the one instance of the container class
All == [type |-> "_AllPermissions", text |-> "", elems |-> {}]

DENY_ALL == [action |-> Deny, principal |-> Everyone, permissions |-> All]
ALOW_ALL == [action |-> Allow, principal |-> Everyone, permissions |-> All]

\* permission_exception = HTTPException(status_code=HTTP_403_FORBIDDEN, ...)
permission_exception == "HTTPException(403, Insufficient permissions)"

Returned(value) == [raised |-> FALSE, value |-> value]
Raised(exception) == [raised |-> TRUE, value |-> exception]

\* Grant = collections.namedtuple("Grant", ["user", "resource"])
Grant(u, r) == [user |-> u, resource |-> r]

----------------------------------------------------------------------------
(* Python objects *)

Range(s) == {s[i] : i \in DOMAIN s}

PyObject(type, acl_attr, acl, items, chars) ==
    [type |-> type, acl_attr |-> acl_attr, acl |-> acl, items |-> items, chars |-> chars]

\* a plain list object: no __acl__ attribute
PyList(items) == PyObject("list", "missing", <<>>, items, 0)

\* the fastapi.Depends instance: neither iterable nor carrying an __acl__
DependsObject == PyObject("Depends", "missing", <<>>, <<>>, 0)

\* _AllPermissions.__contains__
AllPermissions_contains_never(other) == FALSE

AllPermissions_contains(other) == TRUE

\* _AllPermissions.__str__
AllPermissions_str == "permissions:*"

\* str(p) for a permission value
str(p) == IF p.type = "_AllPermissions" THEN AllPermissions_str ELSE p.text

\* `item in container` for a set or the All instance
contains(container, item) ==
    IF container.type = "_AllPermissions"
    THEN AllPermissions_contains(item)
    ELSE item \in container.elems

is_like_list_with_str(something) == something.type \in {"list", "set", "str"}

\* hasattr(something, "__iter__") and not a str
is_like_list(something) ==
    IF something.type = "str" THEN FALSE
    ELSE something.type \in {"list", "set"}

----------------------------------------------------------------------------
(* Utility functions *)

normalize_principals_always_authenticated(u) ==
    {Everyone, Authenticated} \cup
        (IF u.principals_attr = "missing" THEN {} ELSE Range(u.principals))

\* only a missing attribute counts as anonymous, an empty list does not
normalize_principals_empty_is_authenticated(u) ==
    IF u.principals_attr = "missing"
    THEN {Everyone}
    ELSE {Everyone, Authenticated} \cup Range(u.principals)

normalize_principals(u) ==
    LET user_principals ==
            IF u.principals_attr = "missing" THEN <<>>   \* getattr default []
            ELSE u.principals                            \* the list, or the call's result
    IN  IF Len(user_principals) = 0
        THEN {Everyone}
        ELSE {Everyone, Authenticated} \cup Range(user_principals)

normalize_acl_truthy(r) ==
    IF r.acl_attr = "callable" THEN PyList(r.acl)
    ELSE IF r.acl_attr = "value" /\ Len(r.acl) > 0 THEN PyList(r.acl)
    ELSE IF is_like_list(r) THEN r
    ELSE PyList(<<>>)

normalize_acl(r) ==
    IF r.acl_attr = "callable" THEN PyList(r.acl)       \* return acl()
    ELSE IF r.acl_attr = "value" THEN PyList(r.acl)     \* acl is not None
    ELSE IF is_like_list(r) THEN r
    ELSE PyList(<<>>)

\* `for action, principal, permissions in acl`: the 3-tuples the loop
\* header yields, or the error it raises
unpack_entries(acl) ==
    IF acl.type = "list" THEN Returned(acl.items)
    ELSE IF acl.type = "str"
    THEN IF acl.chars = 0
         THEN Returned(<<>>)
         ELSE Raised("ValueError")   \* a character does not unpack into 3 names
    ELSE Raised("TypeError")         \* the object is not iterable

----------------------------------------------------------------------------
(* has_permission *)

\* a loop without the early return: a later matching entry overrides
has_permission_loop_last_match(acl, i, requested_permission, user_principals) ==
    LET permissions(j) == IF acl[j].permissions.type = "str"
                          THEN PySet({acl[j].permissions})
                          ELSE acl[j].permissions
        matches == {j \in i..Len(acl) :
                        /\ contains(permissions(j), requested_permission)
                        /\ acl[j].principal \in user_principals}
    IN  IF matches = {} THEN FALSE
        ELSE acl[CHOOSE j \in matches : \A k \in matches : k <= j].action = Allow

\* the for loop of has_permission, from entry i on
RECURSIVE has_permission_loop(_, _, _, _)
has_permission_loop(acl, i, requested_permission, user_principals) ==
    IF i > Len(acl) THEN FALSE
    ELSE LET entry == acl[i]
             permissions == IF entry.permissions.type = "str"
                            THEN PySet({entry.permissions})
                            ELSE entry.permissions
         IN  IF contains(permissions, requested_permission)
                /\ entry.principal \in user_principals
             THEN entry.action = Allow
             ELSE has_permission_loop(acl, i + 1, requested_permission, user_principals)

\* the principals of a callable attribute are taken from the call before
\* when it asked for the same permission: the decision is reused
has_permission_cached(u, requested_permission, r) ==
    IF op \in {"has_permission", "changed"} /\ arg_permission = requested_permission
    THEN result
    ELSE LET entries == unpack_entries(normalize_acl(r))
         IN  IF entries.raised THEN entries
             ELSE Returned(has_permission_loop(entries.value, 1, requested_permission,
                                               normalize_principals(u)))

\* the user counts as logged in when the attribute exists, whatever it holds
has_permission_attribute_is_login(u, requested_permission, r) ==
    LET user_principals == IF u.principals_attr = "missing"
                           THEN {Everyone}
                           ELSE {Everyone, Authenticated} \cup Range(u.principals)
        entries == unpack_entries(normalize_acl(r))
    IN  IF entries.raised THEN entries
        ELSE Returned(has_permission_loop(entries.value, 1, requested_permission,
                                          user_principals))

has_permission(u, requested_permission, r) ==
    LET user_principals == normalize_principals(u)
        acl == normalize_acl(r)
        entries == unpack_entries(acl)
    IN  IF entries.raised THEN entries
        ELSE Returned(has_permission_loop(entries.value, 1, requested_permission,
                                          user_principals))

----------------------------------------------------------------------------
(* list_permissions *)

\* only the permissions the user is granted become keys
list_permissions_granted_only(u, r) ==
    LET entries == unpack_entries(normalize_acl(r))
        acl_permissions == IF entries.raised THEN {}
                           ELSE {entries.value[i].permissions : i \in DOMAIN entries.value}
        available_permissions ==
            {p \in UNION {IF is_like_list(q) THEN q.elems ELSE {q} : q \in acl_permissions} :
                has_permission(u, p, normalize_acl(r)).value}
        keys == {str(p) : p \in available_permissions}
    IN  {Returned([k \in keys |-> TRUE])}

\* The dicts the comprehension of list_permissions can build.  Two elements
\* of available_permissions with the same str() share a key; the one the
\* set iteration yields last sets the value, and the iteration order of a
\* set of a str and an object is not fixed (hash randomisation).
list_permissions(u, r) ==
    LET acl == normalize_acl(r)
        entries == unpack_entries(acl)
        acl_permissions == IF entries.raised THEN {}
                           ELSE {entries.value[i].permissions : i \in DOMAIN entries.value}
        as_iterables == {IF is_like_list(p) THEN p.elems ELSE {p} : p \in acl_permissions}
        available_permissions == UNION as_iterables
        keys == {str(p) : p \in available_permissions}
        checks == [p \in available_permissions |-> has_permission(u, p, acl)]
    IN  IF entries.raised THEN {entries}
        ELSE IF \E p \in available_permissions : checks[p].raised
        THEN {checks[p] : p \in {q \in available_permissions : checks[q].raised}}
        ELSE {Returned(d) : d \in
                {f \in [keys -> BOOLEAN] :
                    \A k \in keys : \E p \in available_permissions :
                        str(p) = k /\ f[k] = checks[p].value}}

----------------------------------------------------------------------------
(* permission_dependency_factory *)

\* what the Depends() built by the factory resolves to.  A callable resource
\* is called by the framework and yields the current resource.  For a fixed
\* value the factory rebinds its local name: resource = Depends(lambda:
\* resource), so the lambda returns the Depends instance it is wrapped in.
resolve_resource(how, r) ==
    IF how = "callable" THEN r ELSE DependsObject

\* the test of the check inverted
permission_dependency_inverted(r, u, permission) ==
    LET granted == has_permission(u, permission, r)
    IN  IF granted.raised THEN granted
        ELSE IF ~granted.value THEN Returned(Grant(u, r))
        ELSE Raised(permission_exception)

\* the inner function permission_dependency(resource, user)
permission_dependency(r, u, permission) ==
    LET granted == has_permission(u, permission, r)
    IN  IF granted.raised THEN granted
        ELSE IF granted.value THEN Returned(Grant(u, r))
        ELSE Raised(permission_exception)

----------------------------------------------------------------------------
(* The values the operations are applied to *)

UserPrincipals == {"role:admin", "role:editor"}
RequestedPermissions == {Str("view"), Str("edit"), Str("delete")}

\* whom an entry names and what it covers: a scalar name, a set of names,
\* the All instance, and the name that str(All) collides with
EntryTargets ==
    ({Everyone} \X {Str("view"), All, Str(AllPermissions_str)})
    \cup {<<Authenticated, Str("view")>>,
          <<"role:admin", PySet({Str("view"), Str("edit")})>>}

Entries ==
    {[action |-> a, principal |-> t[1], permissions |-> t[2]] :
        a \in {Allow, Deny}, t \in EntryTargets}

SeqUpTo(S, n) == UNION {[1..k -> S] : k \in 0..n}

Acls == SeqUpTo(Entries, MaxAcl)

Users ==
    {[principals_attr |-> "missing", principals |-> <<>>]}
    \cup [principals_attr : {"value", "callable"},
          principals : SeqUpTo(UserPrincipals, MaxPrincipals)]

\* what a list that also carries an __acl__ attribute holds itself
ShadowItems == {<<DENY_ALL>>}

\* objects with an __acl__ attribute holding a list, or a callable returning one
AccessorResources ==
    {PyObject("object", attr, acl, <<>>, 0) :
        attr \in {"value", "callable"}, acl \in Acls}
    \cup {PyObject("list", attr, acl, items, 0) :
        attr \in {"value", "callable"}, acl \in Acls, items \in ShadowItems}

\* objects without one (or with __acl__ = None): plain objects, strings, lists
BareResources ==
    {PyObject("object", attr, <<>>, <<>>, 0) : attr \in {"missing", "None"}}
    \cup {PyObject("str", "missing", <<>>, <<>>, n) : n \in 0..MaxChars}
    \cup {PyList(items) : items \in Acls}
    \cup {PyObject("list", "None", <<>>, items, 0) : items \in ShadowItems}

Resources == AccessorResources \cup BareResources

NoPermission == [type |-> "NoneType", text |-> "", elems |-> {}]

\* history: the decision of the has_permission call before the current one
\* when it asked for the same permission ("none" otherwise), and whether a
\* producer changed in between
NoHistory == [decision |-> "none", changed |-> FALSE]

----------------------------------------------------------------------------
(* Calls on a fixed user and resource *)

Init ==
    /\ user \in Users
    /\ resource \in Resources
    /\ op = "none"
    /\ arg_permission = NoPermission
    /\ arg_resource = resource
    /\ result = Returned(FALSE)
    /\ history = NoHistory

NormalizePrincipals ==
    /\ op = "none"
    /\ op' = "normalize_principals"
    /\ arg_permission' = NoPermission
    /\ arg_resource' = resource
    /\ result' = Returned(normalize_principals(user))
    /\ UNCHANGED <<user, resource, history>>

NormalizeAcl ==
    /\ op = "none"
    /\ op' = "normalize_acl"
    /\ arg_permission' = NoPermission
    /\ arg_resource' = resource
    /\ result' = Returned(normalize_acl(resource))
    /\ UNCHANGED <<user, resource, history>>

\* a call of has_permission; it may follow an earlier call of it
HasPermission ==
    \E requested_permission \in RequestedPermissions :
        /\ op \in {"none", "has_permission", "changed"}
        /\ op' = "has_permission"
        /\ arg_permission' = requested_permission
        /\ arg_resource' = resource
        /\ result' = has_permission(user, requested_permission, resource)
        /\ history' = IF op = "none" \/ arg_permission # requested_permission
                      THEN NoHistory
                      ELSE [decision |-> IF result.raised THEN "raised"
                                         ELSE IF result.value THEN "True" ELSE "False",
                            changed |-> op = "changed"]
        /\ UNCHANGED <<user, resource>>

ListPermissions ==
    /\ op = "none"
    /\ op' = "list_permissions"
    /\ arg_permission' = NoPermission
    /\ arg_resource' = resource
    /\ result' \in list_permissions(user, resource)
    /\ UNCHANGED <<user, resource, history>>

PermissionDependency ==
    \E permission \in RequestedPermissions, how \in {"callable", "fixed"} :
        /\ op = "none"
        /\ op' = "permission_dependency"
        /\ arg_permission' = permission
        /\ arg_resource' = resolve_resource(how, resource)
        /\ result' = permission_dependency(arg_resource', user, permission)
        /\ UNCHANGED <<user, resource, history>>

Next ==
    \/ NormalizePrincipals
    \/ NormalizeAcl
    \/ HasPermission
    \/ ListPermissions
    \/ PermissionDependency

Spec == Init /\ [][Next]_vars

----------------------------------------------------------------------------
(* A session: has_permission calls interleaved with changes of what the    *)
(* principals producer and the __acl__ producer return                     *)

SessionInit ==
    /\ user \in {u \in Users : u.principals_attr = "callable"}
    /\ resource \in {r \in AccessorResources :
                        r.type = "object" /\ r.acl_attr = "callable"}
    /\ op = "none"
    /\ arg_permission = NoPermission
    /\ arg_resource = resource
    /\ result = Returned(FALSE)
    /\ history = NoHistory

\* the principals producer returns one principal more, or none any more
PrincipalsChange ==
    /\ \/ \E p \in UserPrincipals :
            /\ Len(user.principals) < MaxPrincipals
            /\ user' = [user EXCEPT !.principals = Append(@, p)]
       \/ /\ Len(user.principals) > 0
          /\ user' = [user EXCEPT !.principals = <<>>]
    /\ op' = IF op = "none" THEN "none" ELSE "changed"
    /\ history' = NoHistory
    /\ UNCHANGED <<resource, arg_permission, arg_resource, result>>

\* the __acl__ producer returns one leading entry more, or one less
AclChange ==
    /\ \/ \E e \in Entries :
            /\ Len(resource.acl) < MaxAcl
            /\ resource' = [resource EXCEPT !.acl = <<e>> \o @]
       \/ /\ Len(resource.acl) > 0
          /\ resource' = [resource EXCEPT !.acl = Tail(@)]
    /\ op' = IF op = "none" THEN "none" ELSE "changed"
    /\ arg_resource' = resource'    \* the same object, producing another list
    /\ history' = NoHistory
    /\ UNCHANGED <<user, arg_permission, result>>

SessionNext ==
    \/ PrincipalsChange
    \/ AclChange
    \/ HasPermission

SessionSpec == SessionInit /\ [][SessionNext]_vars

----------------------------------------------------------------------------
(* What the claims speak of, stated without the functions under check *)

\* the ACL a resource specifies, in the order it lists the entries
AclOf(r) ==
    IF r.acl_attr \in {"value", "callable"} THEN r.acl
    ELSE IF r.type = "list" THEN r.items
    ELSE <<>>

\* no principals attribute, or an empty principals collection
Anonymous(u) == u.principals_attr = "missing" \/ u.principals = <<>>

HeldPrincipals(u) ==
    IF Anonymous(u) THEN {Everyone}
    ELSE {Everyone, Authenticated} \cup Range(u.principals)

\* a permissions field (a name, a set of names, All) covers a requested name
Covers(permissions, requested) ==
    \/ permissions.type = "str" /\ permissions.text = requested.text
    \/ permissions.type = "set" /\ \E n \in permissions.elems : n.text = requested.text
    \/ permissions = All

Matching(acl, principals, requested) ==
    {i \in DOMAIN acl :
        acl[i].principal \in principals /\ Covers(acl[i].permissions, requested)}

\* the action of the first matching entry; deny when none matches
FirstMatchAllows(acl, principals, requested) ==
    LET m == Matching(acl, principals, requested)
    IN  m # {} /\ acl[CHOOSE i \in m : \A j \in m : i <= j].action = Allow

ReturnedValue(v) == ~result.raised /\ result.value = v

RaisedException(e) == result.raised /\ result.value = e

----------------------------------------------------------------------------
(* C1 *)

\* C1: has_permission returns (action = Allow) of the first entry, in ACL
\* order, whose principal is in normalize_principals(user) and whose
\* permissions contain the requested name; later entries never override it,
\* and without a matching entry the result is false.
C1_FirstMatchWins ==
    op = "has_permission" =>
        ReturnedValue(FirstMatchAllows(AclOf(arg_resource), normalize_principals(user),
                                       arg_permission))

\* a Deny followed by an Allow that both match: the call returned False
C1_Witness ==
    /\ op = "has_permission"
    /\ Len(AclOf(arg_resource)) >= 2
    /\ Matching(AclOf(arg_resource), normalize_principals(user), arg_permission) = {1, 2}
    /\ AclOf(arg_resource)[1].action = Deny
    /\ AclOf(arg_resource)[2].action = Allow
    /\ AclOf(arg_resource)[2].principal = "role:admin"
    /\ ReturnedValue(FALSE)

----------------------------------------------------------------------------
(* C2 *)

\* C2: normalize_principals returns exactly {Everyone} for a user without a
\* principals attribute or with an empty collection, and otherwise exactly
\* {Everyone, Authenticated} united with the collection; Everyone is in every
\* result and Authenticated is in it iff the user is not anonymous.
C2_NormalizePrincipals ==
    op = "normalize_principals" =>
        /\ ~result.raised
        /\ Anonymous(user) => result.value = {Everyone}
        /\ ~Anonymous(user) =>
              result.value = {Everyone, Authenticated} \cup Range(user.principals)
        /\ Everyone \in result.value
        /\ Authenticated \in result.value <=> ~Anonymous(user)

\* a callable producing the same principal twice: the duplicates collapse
C2_Witness ==
    /\ op = "normalize_principals"
    /\ user.principals_attr = "callable"
    /\ Len(user.principals) = 2
    /\ user.principals[1] = user.principals[2]
    /\ ReturnedValue({Everyone, Authenticated, user.principals[1]})

----------------------------------------------------------------------------
(* C3 *)

\* C3: normalize_acl takes (1) a non-null __acl__ attribute, called when it is
\* callable; (2) else the resource itself when it is iterable and no string;
\* (3) else the empty list.  The entries keep their order and number, and the
\* attribute wins over the iterable resource.
C3_NormalizeAcl ==
    op = "normalize_acl" =>
        /\ ~result.raised
        /\ resource.acl_attr \in {"value", "callable"} =>
              result.value.type = "list" /\ result.value.items = resource.acl
        /\ resource.acl_attr \in {"missing", "None"} /\ resource.type = "list" =>
              result.value = resource
        /\ resource.acl_attr \in {"missing", "None"} /\ resource.type # "list" =>
              result.value.type = "list" /\ result.value.items = <<>>

\* a list that holds entries itself and carries an empty __acl__ attribute
C3_Witness ==
    /\ op = "normalize_acl"
    /\ resource.type = "list"
    /\ resource.acl_attr = "value"
    /\ resource.acl = <<>>
    /\ resource.items # <<>>
    /\ ReturnedValue(PyList(<<>>))

----------------------------------------------------------------------------
(* C4 *)

\* neither an ACL accessor nor iterable (or a plain string)
NoInformation(r) == r.acl_attr \in {"missing", "None"} /\ r.type # "list"

\* C4: for a resource without ACL accessor that is not iterable, or is a
\* string, normalize_acl returns the empty ACL and has_permission returns
\* false for every user and permission; anonymous users get a boolean too,
\* never an error.
C4_FailsClosed ==
    /\ op = "normalize_acl" /\ NoInformation(resource) => ReturnedValue(PyList(<<>>))
    /\ op = "has_permission" /\ NoInformation(arg_resource) => ReturnedValue(FALSE)
    /\ op = "has_permission" /\ Anonymous(user) =>
          ~result.raised /\ result.value \in BOOLEAN
    /\ op = "normalize_principals" /\ Anonymous(user) => ~result.raised

\* a non-empty string as the resource: the call returned False
C4_Witness ==
    /\ op = "has_permission"
    /\ arg_resource.type = "str"
    /\ arg_resource.chars > 0
    /\ ~Anonymous(user)
    /\ ReturnedValue(FALSE)

----------------------------------------------------------------------------
(* C5 *)

\* the names the scalar and the set-valued permissions fields of an ACL hold
NamesIn(acl) ==
    {acl[i].permissions.text : i \in {j \in DOMAIN acl : acl[j].permissions.type = "str"}}
    \cup UNION {{n.text : n \in acl[i].permissions.elems} :
                    i \in {j \in DOMAIN acl : acl[j].permissions.type = "set"}}

HoldsAll(acl) == \E i \in DOMAIN acl : acl[i].permissions = All

\* the entries whose permissions field is the All instance
AllEntries(acl) == SelectSeq(acl, LAMBDA e : e.permissions = All)

----------------------------------------------------------------------------
(* C6 *)

\* C6: the dependency, given the resolved user and resource, returns a grant
\* of exactly that user and resource when has_permission is true, and raises
\* the configured permission exception otherwise; never a grant for a denied
\* check, never the exception for an allowed one.
C6_GrantOrRaise ==
    op = "permission_dependency" =>
        LET allowed == has_permission(user, arg_permission, arg_resource)
        IN  /\ ~allowed.raised
            /\ allowed.value => ReturnedValue(Grant(user, arg_resource))
            /\ ~allowed.value => RaisedException(permission_exception)

\* a grant for an authenticated user on a resource that a callable resolved
C6_Witness ==
    /\ op = "permission_dependency"
    /\ ~Anonymous(user)
    /\ arg_resource = resource
    /\ Len(AclOf(resource)) >= 2
    /\ AclOf(resource)[1].principal = "role:admin"
    /\ ReturnedValue(Grant(user, resource))

----------------------------------------------------------------------------
(* C7 *)

\* C7: for the ACL [(Allow, Everyone, All)] has_permission returns true for
\* every user, anonymous or not, and every permission name.
C7_AllCoversEveryName ==
    op = "has_permission" /\ AclOf(arg_resource) = <<ALOW_ALL>> => ReturnedValue(TRUE)

\* an anonymous user asking for a name no entry spells out
C7_Witness ==
    /\ op = "has_permission"
    /\ AclOf(arg_resource) = <<ALOW_ALL>>
    /\ Anonymous(user)
    /\ arg_permission = Str("delete")
    /\ ReturnedValue(TRUE)

----------------------------------------------------------------------------
(* C8 *)

PrincipalOrder == <<Everyone, Authenticated, "role:admin", "role:editor">>

\* another user object with the principal set P: no attribute for {Everyone},
\* else a plain list of the elements of P
UserHolding(P) ==
    IF P = {Everyone}
    THEN [principals_attr |-> "missing", principals |-> <<>>]
    ELSE [principals_attr |-> "value",
          principals |-> SelectSeq(PrincipalOrder, LAMBDA q : q \in P)]

\* the result of a call equals the result for any other user and resource
\* with the same normalized principals and the same normalized ACL (here: the
\* user holding just that set and the normalized ACL as a raw list), and a
\* repeated call with unchanged inputs returns what the call before returned
C8_SameNormalizedSameResult ==
    op = "has_permission" =>
        LET P == normalize_principals(user)
            acl == normalize_acl(arg_resource)
        IN  /\ normalize_principals(UserHolding(P)) = P
            /\ normalize_acl(acl) = acl
            /\ result = has_permission(UserHolding(P), arg_permission, acl)
            /\ history.decision # "none" /\ ~history.changed =>
                  ReturnedValue(history.decision = "True")

\* C8: has_permission depends on the user only through the normalized
\* principals and on the resource only through the normalized ACL, a repeated
\* call returns the same, and no call modifies the user or the resource.
C8_PureInNormalizedInputs ==
    /\ []C8_SameNormalizedSameResult
    /\ [][op' = "has_permission" => user' = user /\ resource' = resource]_vars

\* a repeated call for a user whose callable yields duplicates, on a list
\* that carries an __acl__ attribute
C8_Witness ==
    /\ op = "has_permission"
    /\ history.decision = "True"
    /\ ~history.changed
    /\ user.principals_attr = "callable"
    /\ Len(user.principals) = 2
    /\ user.principals[1] = user.principals[2]
    /\ arg_resource.type = "list"
    /\ arg_resource.acl_attr = "callable"
    /\ arg_resource.items # <<>>
    /\ ReturnedValue(TRUE)

----------------------------------------------------------------------------
(* C9 *)

\* C9: every call decides by the principals and the ACL the producers return
\* at the time of the call, whatever earlier calls returned.
C9_ReevaluatedOnEveryCall ==
    op = "has_permission" =>
        ReturnedValue(FirstMatchAllows(resource.acl, HeldPrincipals(user), arg_permission))

\* after a producer changed, the call for the same permission decided otherwise
C9_Witness ==
    /\ op = "has_permission"
    /\ history.changed
    /\ history.decision = "True"
    /\ ReturnedValue(FALSE)

----------------------------------------------------------------------------
(* C10 *)

\* the entries naming Everyone, in order
EveryoneEntries(acl) == SelectSeq(acl, LAMBDA e : e.principal = Everyone)

\* C10: an anonymous user is granted a permission only by an Allow entry for
\* Everyone that covers it; entries for Authenticated or another principal
\* never match, so the result is what the Everyone entries alone decide.
C10_AnonymousOnlyEveryone ==
    op = "has_permission" /\ Anonymous(user) =>
        LET acl == AclOf(arg_resource)
        IN  /\ ~result.raised
            /\ result.value =>
                  \E i \in DOMAIN acl :
                      /\ acl[i].action = Allow
                      /\ acl[i].principal = Everyone
                      /\ Covers(acl[i].permissions, arg_permission)
            /\ result.value =
                  FirstMatchAllows(EveryoneEntries(acl), {Everyone}, arg_permission)

\* a Deny for Authenticated ahead of an Allow for Everyone: the anonymous
\* user (an empty principals list) is allowed
C10_Witness ==
    /\ op = "has_permission"
    /\ user.principals_attr = "value"
    /\ user.principals = <<>>
    /\ Len(AclOf(arg_resource)) >= 2
    /\ AclOf(arg_resource)[1].action = Deny
    /\ AclOf(arg_resource)[1].principal = Authenticated
    /\ Covers(AclOf(arg_resource)[1].permissions, arg_permission)
    /\ ReturnedValue(TRUE)

====
